---- MODULE Spec2Model ----
(***************************************************************************)
(* go-gateway: the service/API registry (cache, a Discovery guarded by one *)
(* sync.RWMutex) and the reverse-proxy director that resolves              *)
(* /{service}/{api} against it.  Modelled from src/main.go.                *)
(*                                                                         *)
(* A Go string is a sequence of atoms: the separator "/" or a non-empty    *)
(* separator-free chunk.  The empty string is << >>.                       *)
(***************************************************************************)
EXTENDS Naturals, Sequences, FiniteSets, TLC

\* Number of goroutines that serve requests concurrently (net/http starts one
\* per connection, on both listeners).
NumProcs == 2

Procs == 1..NumProcs

Sep == "/"
EmptyStr == << >>

---------------------------------------------------------------------------
(* Data model: type API, type Service.                                     *)

\* A nil *API.
NilAPI ==
    [isNil |-> TRUE, Name |-> EmptyStr, Service |-> EmptyStr, Protocol |-> "",
     HTTPMethod |-> "", Host |-> "", Path |-> EmptyStr]

API(name, service, protocol, method, host, path) ==
    [isNil |-> FALSE, Name |-> name, Service |-> service, Protocol |-> protocol,
     HTTPMethod |-> method, Host |-> host, Path |-> path]

\* map[string]*API with no entry; a nil map reads the same and is told apart
\* by Service.nilAPIs.
EmptyAPIs == [k \in {} |-> NilAPI]

\* A nil *Service.
NilService == [isNil |-> TRUE, Name |-> EmptyStr, nilAPIs |-> TRUE, APIs |-> EmptyAPIs]

\* A Service whose APIs field is the map apis.
Service(name, apis) == [isNil |-> FALSE, Name |-> name, nilAPIs |-> FALSE, APIs |-> apis]

\* A Service whose APIs field is nil: what json.Unmarshal leaves when the body
\* has no "apis" member.
ServiceNoAPIs(name) == [isNil |-> FALSE, Name |-> name, nilAPIs |-> TRUE, APIs |-> EmptyAPIs]

\* MapPut into a new map: the entries the map held are gone.
MapPut_Single(m, key, api) == [k \in {key} |-> api]

\* m[key] = api on a Go map.
MapPut(m, key, api) ==
    [k \in (DOMAIN m) \cup {key} |-> IF k = key THEN api ELSE m[k]]

---------------------------------------------------------------------------
(* Values the callers pass in.                                             *)

userService == <<"userService">>
orderService == <<"orderService">>
createUser == <<"createUser">>
listUsers == <<"listUsers">>

\* The README's API and a second backend.
apiCreateUser ==
    API(createUser, userService, "http", "post", "198.15.26.10:8080",
        <<"user", Sep, "createUser">>)
apiCreateUser2 ==
    API(createUser, userService, "https", "GET", "example.org", <<"v2", Sep, "users">>)
apiListUsers ==
    API(listUsers, userService, "https", "GET", "example.org", <<"users">>)
apiOrderCreateUser ==
    API(createUser, orderService, "http", "GET", "example.org", <<"users">>)

\* Arguments of cache.CreateService.
ServiceInputs ==
    { NilService,
      ServiceNoAPIs(EmptyStr),
      \* {"name": "userService"}
      ServiceNoAPIs(userService),
      \* the README's service
      Service(userService, MapPut(EmptyAPIs, createUser, apiCreateUser)),
      \* {"name": "orderService", "apis": {"": {listUsers of userService},
      \*  "listUsers": null}}: a key that differs from the record's name, a
      \* record that names another service, a null record
      Service(orderService,
              MapPut(MapPut(EmptyAPIs, EmptyStr, apiListUsers), listUsers, NilAPI)) }

\* Arguments of cache.CreateAPI.
APIInputs ==
    { NilAPI,
      API(EmptyStr, userService, "http", "GET", "example.org", <<"users">>),
      API(createUser, EmptyStr, "http", "GET", "example.org", <<"users">>),
      apiCreateUser2, apiListUsers, apiOrderCreateUser }

\* Arguments of cache.GetService.
NameInputs == { userService, orderService }

\* An inbound *http.Request as the director sees it: the server leaves
\* URL.Scheme and URL.Host empty.
Request(path, method) ==
    [Scheme |-> "", Host |-> "", Path |-> path, Method |-> method,
     RawQuery |-> "id=7", Body |-> "{\"id\": 7}"]

\* Inbound request paths: what the server puts in URL.Path is empty, "*"
\* (OPTIONS *) or starts with the separator.
Paths ==
    { EmptyStr,
      <<"*">>,
      <<Sep, "userService">>,
      <<Sep, "userService", Sep, "createUser">>,
      <<Sep, "userService", Sep, "listUsers">>,
      <<Sep, "userService", Sep, "foo">>,
      <<Sep, "orderService", Sep, "listUsers">>,
      <<Sep, "orderService", Sep>>,
      <<Sep, Sep, "createUser">>,
      <<Sep, "userService", Sep, "createUser", Sep, "listUsers">>,
      <<Sep, "unknown", Sep, "foo">> }

\* Arguments of the director.
Requests ==
    { Request(p, "GET") : p \in Paths }
        \cup { Request(<<Sep, "userService", Sep, "createUser">>, "post") }

---------------------------------------------------------------------------
(* strings.Split(reqPath, "/")                                             *)

HasSep(s) == \E i \in 1..Len(s) : s[i] = Sep

FirstSep(s) == CHOOSE i \in 1..Len(s) : s[i] = Sep /\ \A j \in 1..(i - 1) : s[j] # Sep

RECURSIVE Split(_)
Split(s) ==
    IF ~HasSep(s)
    THEN <<s>>
    ELSE <<SubSeq(s, 1, FirstSep(s) - 1)>> \o Split(SubSeq(s, FirstSep(s) + 1, Len(s)))

\* pathArray := strings.Split(reqPath, "/")
PathArray(r) == Split(r.Path)

\* reqPath == "" returns, len(pathArray) != 3 returns
Malformed(r) == r.Path = EmptyStr \/ Len(PathArray(r)) # 3

\* serviceName := pathArray[1], apiName := pathArray[2] (Go counts from 0)
ServiceNameOf(r) == PathArray(r)[2]
APINameOf(r) == PathArray(r)[3]

---------------------------------------------------------------------------
(* State.                                                                  *)

VARIABLES
    store,     \* cache.store: service name -> the Service stored under it
    mu,        \* cache.mu: w, the writer that has called Lock ({} when none);
               \* readers, the goroutines between RLock and RUnlock
    pre,       \* history: cache.store as the writer found it on acquiring mu
    pc,        \* where each goroutine stands
    call,      \* the operation each goroutine runs and its arguments
    result,    \* what the operation hands back to its caller
    req,       \* the director's request
    svc,       \* the *Service GetService returned: {} is nil
    crashed,   \* the runtime has thrown a fatal error: the process is gone
    created,   \* history: every (service, key, record) a create call that
               \* returned nil put into the registry
    used       \* history: the service names CallCreateServiceFresh has used

vars == <<store, mu, pre, pc, call, result, req, svc, crashed, created, used>>

NoRequest == Request(EmptyStr, "")
\* A call: the operation and its argument (a *Service, an *API, a service
\* name or a request).
Call(op, arg) == [op |-> op, arg |-> arg]
NoCall == Call("none", EmptyStr)
NoStore == [n \in {} |-> NilService]

\* NewAPIGateWay / NewCacheDiscovery: an empty store, a free lock.
Init ==
    /\ store = NoStore
    /\ mu = [w |-> {}, readers |-> {}]
    /\ pre = NoStore
    /\ pc = [p \in Procs |-> "idle"]
    /\ call = [p \in Procs |-> NoCall]
    /\ result = [p \in Procs |-> ""]
    /\ req = [p \in Procs |-> NoRequest]
    /\ svc = [p \in Procs |-> {}]
    /\ crashed = FALSE
    /\ created = {}
    /\ used = {}

---------------------------------------------------------------------------
(* cache.mu, a sync.RWMutex.                                               *)

\* c.mu.Lock(), first half: the writer takes the writers' mutex and from then
\* on no new reader gets in.
Lock(p) ==
    /\ pc[p] = "lock"
    /\ mu.w = {}
    /\ mu' = [mu EXCEPT !.w = {p}]
    /\ pc' = [pc EXCEPT ![p] = "wait"]
    /\ UNCHANGED <<store, pre, call, result, req, svc, crashed, created, used>>

\* A Lock that does not wait for the readers that are in.
LockAcquired_NoDrain(p) ==
    /\ pc[p] = "wait"
    /\ pre' = store
    /\ pc' = [pc EXCEPT ![p] = "locked"]
    /\ UNCHANGED <<store, mu, call, result, req, svc, crashed, created, used>>

\* c.mu.Lock(), second half: the readers that were in have left.
LockAcquired(p) ==
    /\ pc[p] = "wait"
    /\ mu.readers = {}
    /\ pre' = store
    /\ pc' = [pc EXCEPT ![p] = "locked"]
    /\ UNCHANGED <<store, mu, call, result, req, svc, crashed, created, used>>

\* c.mu.Unlock() as the function's last statement instead of a deferred call:
\* a panic leaves the function with the lock held.
Unlock_NotDeferred(p) ==
    /\ pc[p] = "unlock"
    /\ mu' = IF result[p] = "Panic" THEN mu ELSE [mu EXCEPT !.w = {}]
    /\ pre' = NoStore
    /\ pc' = [pc EXCEPT ![p] = "done"]
    /\ UNCHANGED <<store, call, result, req, svc, crashed, created, used>>

\* defer c.mu.Unlock(): runs on return and on panic alike.
Unlock(p) ==
    /\ pc[p] = "unlock"
    /\ mu' = [mu EXCEPT !.w = {}]
    /\ pre' = NoStore
    /\ pc' = [pc EXCEPT ![p] = "done"]
    /\ UNCHANGED <<store, call, result, req, svc, crashed, created, used>>

\* c.mu.RLock(), by GetService on its own or for the director.
RLock(p) ==
    /\ pc[p] = "rlock"
    /\ mu.w = {}
    /\ mu' = [mu EXCEPT !.readers = @ \cup {p}]
    /\ pc' = [pc EXCEPT ![p] = "rlocked"]
    /\ UNCHANGED <<store, pre, call, result, req, svc, crashed, created, used>>

---------------------------------------------------------------------------
(* cache.CreateService                                                     *)

\* service == nil || service.Name == ""
InvalidService(service) == service.isNil \/ service.Name = EmptyStr

\* StorePut into a fresh map: the services stored before are gone.
StorePut_Fresh(st, service) == [n \in {service.Name} |-> service]

\* c.store[service.Name] = service
StorePut(st, service) ==
    [n \in (DOMAIN st) \cup {service.Name} |->
        IF n = service.Name THEN service ELSE st[n]]

\* The function is entered with a service and validates it before it locks.
BeginCreateService(p, service) ==
    /\ pc[p] = "idle"
    /\ call' = [call EXCEPT ![p] = Call("CreateService", service)]
    /\ IF InvalidService(service)
       THEN /\ result' = [result EXCEPT ![p] = "ValidationError"]
            /\ pc' = [pc EXCEPT ![p] = "done"]
       ELSE /\ result' = result
            /\ pc' = [pc EXCEPT ![p] = "lock"]
    /\ UNCHANGED <<store, mu, pre, req, svc, crashed, created>>

\* A caller hands in any service.
CallCreateService(p) ==
    \E service \in ServiceInputs :
        /\ BeginCreateService(p, service)
        /\ used' = used

\* A caller hands in a service whose name no earlier call has used.
CallCreateServiceFresh(p) ==
    \E service \in ServiceInputs :
        /\ service.Name \notin used
        /\ BeginCreateService(p, service)
        /\ used' = IF InvalidService(service) THEN used ELSE used \cup {service.Name}

\* The entries a service brings with it.
EntriesOf(service) ==
    {[service |-> service.Name, key |-> k, api |-> service.APIs[k]] :
        k \in DOMAIN service.APIs}

\* CreateService_Store without the existence check: the later service replaces
\* the stored one.
CreateService_Store_Overwrite(p) ==
    /\ pc[p] = "locked"
    /\ call[p].op = "CreateService"
    /\ result' = [result EXCEPT ![p] = "Success"]
    /\ store' = StorePut(store, call[p].arg)
    /\ created' = created \cup EntriesOf(call[p].arg)
    /\ pc' = [pc EXCEPT ![p] = "unlock"]
    /\ UNCHANGED <<mu, pre, call, req, svc, crashed, used>>

\* Under the write lock: the existence check and the insertion.
CreateService_Store(p) ==
    /\ pc[p] = "locked"
    /\ call[p].op = "CreateService"
    /\ IF call[p].arg.Name \in DOMAIN store
       THEN /\ result' = [result EXCEPT ![p] = "ConflictError"]
            /\ store' = store
            /\ created' = created
       ELSE /\ result' = [result EXCEPT ![p] = "Success"]
            /\ store' = StorePut(store, call[p].arg)
            /\ created' = created \cup EntriesOf(call[p].arg)
    /\ pc' = [pc EXCEPT ![p] = "unlock"]
    /\ UNCHANGED <<mu, pre, call, req, svc, crashed, used>>

---------------------------------------------------------------------------
(* cache.CreateAPI                                                         *)

\* InvalidAPI without the check of the owning service's name.
InvalidAPI_NameOnly(api) == api.isNil \/ api.Name = EmptyStr

\* api == nil || api.Name == "", then serviceName == ""
InvalidAPI(api) == api.isNil \/ api.Name = EmptyStr \/ api.Service = EmptyStr

\* APIPut that gives the service a new map holding the one api.
APIPut_Replace(st, api) ==
    [st EXCEPT ![api.Service].APIs = MapPut(EmptyAPIs, api.Name, api)]

\* service.APIs[api.Name] = api, through the *Service held in c.store
APIPut(st, api) ==
    [st EXCEPT ![api.Service].APIs = MapPut(@, api.Name, api)]

\* CreateAPIChecks without the check for an existing api of that name.
CreateAPIChecks_NoConflict(st, api) ==
    IF api.Service \notin DOMAIN st THEN "Panic"
    ELSE IF st[api.Service].nilAPIs THEN "Panic"
    ELSE "write"

\* What the checks under the lock come to before anything is written:
\*   "Panic"         service is nil and line 96 reads service.Name, or
\*                   service.APIs is a nil map and line 103 assigns into it
\*   "ConflictError" the name is already a key of service.APIs
\*   "write"         the assignment of line 103 goes ahead
CreateAPIChecks(st, api) ==
    IF api.Service \notin DOMAIN st THEN "Panic"
    ELSE IF api.Name \in DOMAIN st[api.Service].APIs THEN "ConflictError"
    ELSE IF st[api.Service].nilAPIs THEN "Panic"
    ELSE "write"

\* The caller hands in an api; the function validates it before it locks.
CallCreateAPI(p) ==
    /\ pc[p] = "idle"
    /\ \E api \in APIInputs :
        /\ call' = [call EXCEPT ![p] = Call("CreateAPI", api)]
        /\ IF InvalidAPI(api)
           THEN /\ result' = [result EXCEPT ![p] = "ValidationError"]
                /\ pc' = [pc EXCEPT ![p] = "done"]
           ELSE /\ result' = result
                /\ pc' = [pc EXCEPT ![p] = "lock"]
    /\ UNCHANGED <<store, mu, pre, req, svc, crashed, created, used>>

\* Under the write lock: the two lookups, up to the start of the map write.
CreateAPI_Check(p) ==
    /\ pc[p] = "locked"
    /\ call[p].op = "CreateAPI"
    /\ IF CreateAPIChecks(store, call[p].arg) = "write"
       THEN /\ pc' = [pc EXCEPT ![p] = "writing"]
            /\ result' = result
       ELSE /\ pc' = [pc EXCEPT ![p] = "unlock"]
            /\ result' = [result EXCEPT ![p] = CreateAPIChecks(store, call[p].arg)]
    /\ UNCHANGED <<store, mu, pre, call, req, svc, crashed, created, used>>

\* Under the write lock: the map write completes.
CreateAPI_Write(p) ==
    /\ pc[p] = "writing"
    /\ store' = APIPut(store, call[p].arg)
    /\ created' = created \cup {[service |-> call[p].arg.Service,
                                  key |-> call[p].arg.Name, api |-> call[p].arg]}
    /\ result' = [result EXCEPT ![p] = "Success"]
    /\ pc' = [pc EXCEPT ![p] = "unlock"]
    /\ UNCHANGED <<mu, pre, call, req, svc, crashed, used>>

---------------------------------------------------------------------------
(* cache.GetService                                                        *)

\* service, exist := c.store[serviceName]: the pointer, or nil
StoreGet(st, serviceName) ==
    IF serviceName \in DOMAIN st THEN {serviceName} ELSE {}

\* The serviceName GetService is called with: its caller's, and from the
\* director pathArray[1].
NameArg(p) ==
    IF call[p].op = "director" THEN ServiceNameOf(call[p].arg) ELSE call[p].arg

CallGetService(p) ==
    /\ pc[p] = "idle"
    /\ \E serviceName \in NameInputs :
        call' = [call EXCEPT ![p] = Call("GetService", serviceName)]
    /\ pc' = [pc EXCEPT ![p] = "rlock"]
    /\ UNCHANGED <<store, mu, pre, result, req, svc, crashed, created, used>>

\* Under the read lock: the lookup, and the value to return.
GetService_Read(p) ==
    /\ pc[p] = "rlocked"
    /\ svc' = [svc EXCEPT ![p] = StoreGet(store, NameArg(p))]
    /\ result' = [result EXCEPT ![p] =
            IF StoreGet(store, NameArg(p)) = {} THEN "NotFoundError" ELSE "Success"]
    /\ pc' = [pc EXCEPT ![p] = "runlock"]
    /\ UNCHANGED <<store, mu, pre, call, req, crashed, created, used>>

\* defer c.mu.RUnlock(), and the return.  A GetService call is over; the
\* director returns on an error and goes on to its own lookup otherwise.
RUnlock(p) ==
    /\ pc[p] = "runlock"
    /\ mu' = [mu EXCEPT !.readers = @ \ {p}]
    /\ IF call[p].op = "director"
       THEN /\ result' = [result EXCEPT ![p] = IF svc[p] = {} THEN "returned" ELSE ""]
            /\ pc' = [pc EXCEPT ![p] = IF svc[p] = {} THEN "done" ELSE "lookup"]
       ELSE /\ result' = result
            /\ pc' = [pc EXCEPT ![p] = "done"]
    /\ UNCHANGED <<store, pre, call, req, svc, crashed, created, used>>

---------------------------------------------------------------------------
(* APIGateway.director                                                     *)

\* api, exist := m[apiName]
MapGet(m, apiName) ==
    IF apiName \in DOMAIN m
    THEN [exist |-> TRUE, api |-> m[apiName]]
    ELSE [exist |-> FALSE, api |-> NilAPI]

\* A rewrite that gives the request a new URL made of the three parts: the
\* query string is gone.
Rewrite_NewURL(r, api) ==
    [r EXCEPT !.Scheme = api.Protocol, !.Host = api.Host, !.Path = <<Sep>> \o api.Path,
              !.RawQuery = ""]

\* req.URL.Scheme = api.Protocol; req.URL.Host = api.Host;
\* req.URL.Path = "/" + api.Path
Rewrite(r, api) ==
    [r EXCEPT !.Scheme = api.Protocol, !.Host = api.Host, !.Path = <<Sep>> \o api.Path]

\* The director is handed the request and splits its path.
Calldirector(p) ==
    /\ pc[p] = "idle"
    /\ \E r \in Requests :
        /\ req' = [req EXCEPT ![p] = r]
        /\ call' = [call EXCEPT ![p] = Call("director", r)]
        /\ IF Malformed(r)
           THEN /\ result' = [result EXCEPT ![p] = "returned"]
                /\ pc' = [pc EXCEPT ![p] = "done"]
           ELSE /\ result' = result
                /\ pc' = [pc EXCEPT ![p] = "rlock"]
    /\ UNCHANGED <<store, mu, pre, svc, crashed, created, used>>

\* The service whose map the director is about to read.
TheService(p) == CHOOSE n \in svc[p] : TRUE

\* service.APIs[apiName] is read after GetService has released the read lock:
\* a CreateAPI that is writing the same map races with it.
Racing(p) ==
    \E q \in Procs : pc[q] = "writing" /\ call[q].arg.Service \in svc[p]

\* What the read of service.APIs[apiName] may give.  Without a writer, the
\* entry.  Racing with a writer (a data race on a Go map): the map as it was,
\* the map as the writer leaves it, or a miss.
Reads(p) ==
    {MapGet(store[TheService(p)].APIs, APINameOf(call[p].arg))}
        \cup
    IF Racing(p)
    THEN {[exist |-> FALSE, api |-> NilAPI]}
            \cup {MapGet(APIPut(store, call[q].arg)[TheService(p)].APIs,
                         APINameOf(call[p].arg)) :
                    q \in {x \in Procs : pc[x] = "writing"
                                         /\ call[x].arg.Service \in svc[p]}}
    ELSE {}

\* if req.Method != api.HTTPMethod { log.Printf(...) }: what the director has
\* done when it returns after the comparison.
MethodChecked(r, api) ==
    IF r.Method # api.HTTPMethod THEN "returned (method unsupported)" ELSE "returned"

\* A director that gives up on a request whose method is not the api's.
director_Lookup_MethodRequired(p) ==
    /\ pc[p] = "lookup"
    /\ \E rd \in Reads(p) :
        IF ~rd.exist
        THEN /\ result' = [result EXCEPT ![p] = "returned"]
             /\ req' = req
        ELSE IF rd.api.isNil
        THEN /\ result' = [result EXCEPT ![p] = "Panic"]
             /\ req' = req
        ELSE /\ result' = [result EXCEPT ![p] = MethodChecked(req[p], rd.api)]
             /\ req' = IF req[p].Method # rd.api.HTTPMethod
                       THEN req
                       ELSE [req EXCEPT ![p] = Rewrite(req[p], rd.api)]
    /\ pc' = [pc EXCEPT ![p] = "done"]
    /\ UNCHANGED <<store, mu, pre, call, svc, crashed, created, used>>

\* A director that builds the outbound path in the record it has looked up
\* (api.Path = "/" + api.Path) before it copies it into the request.
director_Lookup_InPlace(p) ==
    /\ pc[p] = "lookup"
    /\ LET rd == MapGet(store[TheService(p)].APIs, APINameOf(call[p].arg))
       IN  IF ~rd.exist
           THEN /\ result' = [result EXCEPT ![p] = "returned"]
                /\ req' = req
                /\ store' = store
           ELSE IF rd.api.isNil
           THEN /\ result' = [result EXCEPT ![p] = "Panic"]
                /\ req' = req
                /\ store' = store
           ELSE /\ result' = [result EXCEPT ![p] = MethodChecked(req[p], rd.api)]
                /\ req' = [req EXCEPT ![p] = Rewrite(req[p], rd.api)]
                /\ store' = [store EXCEPT
                                ![TheService(p)].APIs[APINameOf(call[p].arg)].Path =
                                    <<Sep>> \o @]
    /\ pc' = [pc EXCEPT ![p] = "done"]
    /\ UNCHANGED <<mu, pre, call, svc, crashed, created, used>>

\* The lookup and what follows it: return when the api does not exist, panic
\* on reading api.HTTPMethod of a nil api, else log a method that is not the
\* api's and rewrite the request.
director_Lookup(p) ==
    /\ pc[p] = "lookup"
    /\ \E rd \in Reads(p) :
        IF ~rd.exist
        THEN /\ result' = [result EXCEPT ![p] = "returned"]
             /\ req' = req
        ELSE IF rd.api.isNil
        THEN /\ result' = [result EXCEPT ![p] = "Panic"]
             /\ req' = req
        ELSE /\ result' = [result EXCEPT ![p] = MethodChecked(req[p], rd.api)]
             /\ req' = [req EXCEPT ![p] = Rewrite(req[p], rd.api)]
    /\ pc' = [pc EXCEPT ![p] = "done"]
    /\ UNCHANGED <<store, mu, pre, call, svc, crashed, created, used>>

\* What a director body comes to, run in one piece on the registry st.
Outcome(res, r) == [result |-> res, req |-> r]

\* The method director with a method comparison that gives up on a mismatch.
director_MethodRequired(st, r) ==
    LET pathArray == Split(r.Path)
        serviceName == pathArray[2]
        apiName == pathArray[3]
    IN  IF r.Path = EmptyStr THEN Outcome("returned", r)
        ELSE IF Len(pathArray) # 3 THEN Outcome("returned", r)
        ELSE IF StoreGet(st, serviceName) = {} THEN Outcome("returned", r)
        ELSE LET rd == MapGet(st[serviceName].APIs, apiName)
             IN  IF ~rd.exist THEN Outcome("returned", r)
                 ELSE IF rd.api.isNil THEN Outcome("Panic", r)
                 ELSE IF r.Method # rd.api.HTTPMethod
                 THEN Outcome(MethodChecked(r, rd.api), r)
                 ELSE Outcome(MethodChecked(r, rd.api), Rewrite(r, rd.api))

\* func (gateway *APIGateway) director(req *http.Request), the Director that
\* ServeHTTP gives the reverse proxy, run in one piece on the registry st.
director(st, r) ==
    LET pathArray == Split(r.Path)
        serviceName == pathArray[2]
        apiName == pathArray[3]
    IN  IF r.Path = EmptyStr THEN Outcome("returned", r)
        ELSE IF Len(pathArray) # 3 THEN Outcome("returned", r)
        ELSE IF StoreGet(st, serviceName) = {} THEN Outcome("returned", r)
        ELSE LET rd == MapGet(st[serviceName].APIs, apiName)
             IN  IF ~rd.exist THEN Outcome("returned", r)
                 ELSE IF rd.api.isNil THEN Outcome("Panic", r)
                 ELSE Outcome(MethodChecked(r, rd.api), Rewrite(r, rd.api))

\* The closure NewAPIGateWay stores in gateway.directorFunc: it logs a path
\* of the wrong format, compares no method, and panics on api.Protocol of a
\* nil api.
directorFunc(st, r) ==
    LET pathArray == Split(r.Path)
        serviceName == pathArray[2]
        apiName == pathArray[3]
    IN  IF r.Path = EmptyStr THEN Outcome("returned", r)
        ELSE IF Len(pathArray) # 3 THEN Outcome("returned (format error)", r)
        ELSE IF StoreGet(st, serviceName) = {} THEN Outcome("returned", r)
        ELSE LET rd == MapGet(st[serviceName].APIs, apiName)
             IN  IF ~rd.exist THEN Outcome("returned", r)
                 ELSE IF rd.api.isNil THEN Outcome("Panic", r)
                 ELSE Outcome("returned", Rewrite(r, rd.api))

\* The runtime detects the racing map read ("fatal error: concurrent map read
\* and map write") and ends the process, every goroutine with it.
director_Fatal(p) ==
    /\ pc[p] = "lookup"
    /\ Racing(p)
    /\ crashed' = TRUE
    /\ pc' = [q \in Procs |-> "exited"]
    /\ UNCHANGED <<store, mu, pre, call, result, req, svc, created, used>>

---------------------------------------------------------------------------

\* The operation is over and the goroutine takes its next request.
Return(p) ==
    /\ pc[p] = "done"
    /\ pc' = [pc EXCEPT ![p] = "idle"]
    /\ call' = [call EXCEPT ![p] = NoCall]
    /\ result' = [result EXCEPT ![p] = ""]
    /\ req' = [req EXCEPT ![p] = NoRequest]
    /\ svc' = [svc EXCEPT ![p] = {}]
    /\ UNCHANGED <<store, mu, pre, crashed, created, used>>

Step(p) ==
    \/ CallGetService(p)
    \/ CallCreateService(p)
    \/ CallCreateAPI(p)
    \/ Calldirector(p)
    \/ Lock(p)
    \/ LockAcquired(p)
    \/ Unlock(p)
    \/ RLock(p)
    \/ RUnlock(p)
    \/ CreateService_Store(p)
    \/ CreateAPI_Check(p)
    \/ CreateAPI_Write(p)
    \/ GetService_Read(p)
    \/ director_Lookup(p)
    \/ director_Fatal(p)
    \/ Return(p)

Next == \E p \in Procs : Step(p)

\* Both listeners serve: the administration calls and the proxy's director.
Spec == Init /\ [][Next]_vars

\* The registry on its own: the three operations of Discovery, called
\* concurrently.
RegistryStep(p) ==
    \/ CallGetService(p)
    \/ CallCreateService(p)
    \/ CallCreateAPI(p)
    \/ Lock(p)
    \/ LockAcquired(p)
    \/ Unlock(p)
    \/ RLock(p)
    \/ RUnlock(p)
    \/ CreateService_Store(p)
    \/ CreateAPI_Check(p)
    \/ CreateAPI_Write(p)
    \/ GetService_Read(p)
    \/ Return(p)

RegistryNext == \E p \in Procs : RegistryStep(p)

SpecRegistry == Init /\ [][RegistryNext]_vars

\* What a goroutine inside a registry operation does next without waiting
\* for anybody but the readers that are already in.
Running(p) ==
    \/ LockAcquired(p)
    \/ Unlock(p)
    \/ RUnlock(p)
    \/ CreateService_Store(p)
    \/ CreateAPI_Check(p)
    \/ CreateAPI_Write(p)
    \/ GetService_Read(p)

\* The registry under the scheduling Go gives: a runnable goroutine runs, and
\* sync.RWMutex starves neither a writer queued in Lock (sync.Mutex hands over
\* to a waiter in starvation mode) nor a reader queued in RLock (Unlock wakes
\* the readers that queued behind the writer before the next writer gets in).
\* Callers are free never to call.
SpecRegistryFair ==
    /\ Init
    /\ [][RegistryNext]_vars
    /\ \A p \in Procs :
        /\ WF_vars(Running(p))
        /\ SF_vars(Lock(p))
        /\ SF_vars(RLock(p))

\* The registry when every CreateService call brings a name of its own.
DistinctStep(p) ==
    \/ CallGetService(p)
    \/ CallCreateServiceFresh(p)
    \/ CallCreateAPI(p)
    \/ Lock(p)
    \/ LockAcquired(p)
    \/ Unlock(p)
    \/ RLock(p)
    \/ RUnlock(p)
    \/ CreateService_Store(p)
    \/ CreateAPI_Check(p)
    \/ CreateAPI_Write(p)
    \/ GetService_Read(p)
    \/ Return(p)

DistinctNext == \E p \in Procs : DistinctStep(p)

SpecDistinct == Init /\ [][DistinctNext]_vars

\* The program as main starts it: a goroutine serves a connection of one of
\* the two listeners.  Those of the proxy listener (RunProxy, the odd ones
\* here) run the director; those of the administration listener (RunServer)
\* run the handlers that call CreateService and CreateAPI.
ProxyProcs == {p \in Procs : p % 2 = 1}
AdminProcs == Procs \ ProxyProcs

ProxyStep(p) ==
    \/ Calldirector(p)
    \/ RLock(p)
    \/ GetService_Read(p)
    \/ RUnlock(p)
    \/ director_Lookup(p)
    \/ director_Fatal(p)
    \/ Return(p)

AdminStep(p) ==
    \/ CallCreateService(p)
    \/ CallCreateAPI(p)
    \/ Lock(p)
    \/ LockAcquired(p)
    \/ CreateService_Store(p)
    \/ CreateAPI_Check(p)
    \/ CreateAPI_Write(p)
    \/ Unlock(p)
    \/ Return(p)

ListenersNext ==
    \/ \E p \in ProxyProcs : ProxyStep(p)
    \/ \E p \in AdminProcs : AdminStep(p)

SpecListeners == Init /\ [][ListenersNext]_vars

---------------------------------------------------------------------------
(* Properties.                                                             *)

\* The writer of the registry that is about to return: its result is set, it
\* still holds the lock, and pre is the registry as it found it.
Returning(p, op) == pc[p] = "unlock" /\ call[p].op = op

\* Registry st1 is st0 but for the entry key of service s.
SameBut(st1, st0, s, key) ==
    /\ DOMAIN st1 = DOMAIN st0
    /\ \A n \in DOMAIN st0 :
        /\ st1[n].Name = st0[n].Name
        /\ st1[n].nilAPIs = st0[n].nilAPIs
        /\ (DOMAIN st1[n].APIs) \ (IF n = s THEN {key} ELSE {}) = DOMAIN st0[n].APIs
        /\ \A k \in DOMAIN st0[n].APIs : st1[n].APIs[k] = st0[n].APIs[k]

\* C1: a CreateAPI call with a non-empty name and a non-empty service name
\* that names no service of the registry returns NotFoundError, and the
\* registry is after the call what it was before.
C1_NotFoundError ==
    \A p \in Procs :
        (Returning(p, "CreateAPI") /\ call[p].arg.Service \notin DOMAIN pre)
            => (result[p] = "NotFoundError" /\ store = pre)

\* C2: a CreateAPI call for a service of the registry, created with an
\* initial mapping or with none, and a name not yet under it returns Success;
\* the service's mapping then holds the api under its name and every other
\* entry is what it was.
C2_Inserted ==
    \A p \in Procs :
        (/\ Returning(p, "CreateAPI")
         /\ call[p].arg.Service \in DOMAIN pre
         /\ call[p].arg.Name \notin DOMAIN pre[call[p].arg.Service].APIs)
            => /\ result[p] = "Success"
               /\ SameBut(store, pre, call[p].arg.Service, call[p].arg.Name)
               /\ call[p].arg.Name \in DOMAIN store[call[p].arg.Service].APIs
               /\ store[call[p].arg.Service].APIs[call[p].arg.Name] = call[p].arg

\* C3: a CreateService call with a new name returns Success and adds the
\* service as passed, next to the services already there; a call with a name
\* the registry already holds returns ConflictError and leaves the registry,
\* the stored service and its mapping included, as it was.
C3_CreateService ==
    \A p \in Procs :
        Returning(p, "CreateService") =>
            IF call[p].arg.Name \in DOMAIN pre
            THEN result[p] = "ConflictError" /\ store = pre
            ELSE /\ result[p] = "Success"
                 /\ DOMAIN store = (DOMAIN pre) \cup {call[p].arg.Name}
                 /\ store[call[p].arg.Name] = call[p].arg
                 /\ \A n \in DOMAIN pre : store[n] = pre[n]

\* C3's case: a second service is refused under a name whose stored record
\* differs from the one now passed, with another service in the registry.
C3_Witness ==
    \E p \in Procs :
        /\ Returning(p, "CreateService")
        /\ result[p] = "ConflictError"
        /\ store[call[p].arg.Name] # call[p].arg
        /\ Cardinality(DOMAIN store) = 2

\* C4: a CreateAPI call whose name is already a key of its service's mapping
\* returns ConflictError and leaves the stored record and the rest of the
\* registry as they were.
C4_Conflict ==
    \A p \in Procs :
        (/\ Returning(p, "CreateAPI")
         /\ call[p].arg.Service \in DOMAIN pre
         /\ call[p].arg.Name \in DOMAIN pre[call[p].arg.Service].APIs)
            => (result[p] = "ConflictError" /\ store = pre)

\* C4's case: the refused api differs from the record stored under its name.
C4_Witness ==
    \E p \in Procs :
        /\ Returning(p, "CreateAPI")
        /\ result[p] = "ConflictError"
        /\ store[call[p].arg.Service].APIs[call[p].arg.Name] # call[p].arg

\* Two API records with the same protocol, method, host and path.
SameBackend(a, b) ==
    /\ a.Protocol = b.Protocol
    /\ a.HTTPMethod = b.HTTPMethod
    /\ a.Host = b.Host
    /\ a.Path = b.Path

\* The entries created under service name n.
CreatedUnder(n) == {e \in created : e.service = n}

CreatingService(q, n) ==
    /\ call[q].op = "CreateService"
    /\ pc[q] # "done"
    /\ call[q].arg.Name = n

\* C6: when the CreateService calls bring pairwise distinct non-empty names,
\* in any interleaving every call returns Success and leaves its service in
\* the registry, and a GetService for a name whose call has returned succeeds.
C6_NoLostWrite ==
    /\ \A p \in Procs :
        (/\ call[p].op = "CreateService"
         /\ pc[p] \in {"unlock", "done"}
         /\ ~InvalidService(call[p].arg))
            => (result[p] = "Success" /\ call[p].arg.Name \in DOMAIN store)
    /\ \A p \in Procs :
        (/\ pc[p] = "runlock"
         /\ call[p].op = "GetService"
         /\ call[p].arg \in used
         /\ ~\E q \in Procs : CreatingService(q, call[p].arg))
            => (result[p] = "Success" /\ svc[p] = {call[p].arg})

\* C6's case: a CreateService call is about to return Success while another
\* call, with another name, is at c.mu.Lock().
C6_Witness ==
    \E p, q \in Procs :
        /\ Returning(p, "CreateService")
        /\ result[p] = "Success"
        /\ call[q].op = "CreateService"
        /\ pc[q] = "lock"
        /\ call[q].arg.Name # call[p].arg.Name

\* C7: no director reads a service's API mapping while a CreateAPI call is
\* writing that mapping.
C7_NoRacingLookup ==
    \A p \in Procs : ~(pc[p] = "lookup" /\ Racing(p))

\* C8: every API record of the registry names as its owning service the
\* service under whose mapping it is stored.
C8_OwningService ==
    \A n \in DOMAIN store :
        \A k \in DOMAIN store[n].APIs : store[n].APIs[k].Service = n

\* C9: a director whose path is /{service}/{api}, with the service registered
\* and the api in its mapping, sets the request's scheme to the api's
\* protocol, its host to the api's host and its path to "/" and the api's
\* path: it does so in the step that ends its lookup.
C9_Resolves ==
    [][\A p \in Procs :
        (/\ pc[p] = "lookup"
         /\ pc'[p] \in {"done", "exited"}
         /\ MapGet(store[TheService(p)].APIs, APINameOf(call[p].arg)).exist
         /\ ~MapGet(store[TheService(p)].APIs, APINameOf(call[p].arg)).api.isNil)
            => LET api == MapGet(store[TheService(p)].APIs, APINameOf(call[p].arg)).api
               IN  /\ req'[p].Scheme = api.Protocol
                   /\ req'[p].Host = api.Host
                   /\ req'[p].Path = <<Sep>> \o api.Path]_vars

\* A path of exactly two non-empty segments after the leading separator.
TwoSegments(path) ==
    /\ Len(path) = 4
    /\ path[1] = Sep
    /\ path[2] # Sep
    /\ path[3] = Sep
    /\ path[4] # Sep

\* C10: for a path that is not two non-empty segments after the leading
\* separator the director leaves the request's scheme, host and path as they
\* were.
C10_OnlyTwoSegments ==
    \A p \in Procs :
        (pc[p] = "done" /\ call[p].op = "director" /\ ~TwoSegments(call[p].arg.Path))
            => /\ req[p].Scheme = call[p].arg.Scheme
               /\ req[p].Host = call[p].arg.Host
               /\ req[p].Path = call[p].arg.Path

\* A CreateAPI call is writing, under service n, the key the director p asks for.
WritingKey(p, n) ==
    \E q \in Procs :
        /\ pc[q] = "writing"
        /\ call[q].arg.Service = n
        /\ call[q].arg.Name = APINameOf(call[p].arg)

\* C11: a director whose first segment names no service of the registry, or
\* whose second segment names no api of the resolved service's mapping (and
\* none that is being written), returns in the step that ends its lookup,
\* with the request's scheme, host and path as they were on entry.
C11_Unresolved ==
    [][\A p \in Procs :
        (\/ /\ pc[p] = "runlock"
            /\ call[p].op = "director"
            /\ svc[p] = {}
            /\ pc'[p] # "runlock"
         \/ /\ pc[p] = "lookup"
            /\ pc'[p] # "lookup"
            /\ APINameOf(call[p].arg) \notin DOMAIN store[TheService(p)].APIs
            /\ ~WritingKey(p, TheService(p)))
            => /\ pc'[p] = "done"
               /\ result'[p] = "returned"
               /\ req'[p].Scheme = call[p].arg.Scheme
               /\ req'[p].Host = call[p].arg.Host
               /\ req'[p].Path = call[p].arg.Path]_vars

\* What a director that has read rd leaves in the request r: the rewrite to
\* the record read, or r when the read found no record.
After(r, rd) == IF rd.exist /\ ~rd.api.isNil THEN Rewrite(r, rd.api) ELSE r

\* C12: the step that ends a director's lookup depends on what the read of
\* the mapping gave and not on the request's method: when the read found a
\* record the request gets the record's protocol, its host and "/" and its
\* path, whether the request's method is the record's or not.
C12_MethodMismatch ==
    [][\A p \in Procs :
        (pc[p] = "lookup" /\ pc'[p] = "done")
            => \E rd \in Reads(p) : req'[p] = After(req[p], rd)]_vars

\* C12's case: a GET request has been rewritten to the backend of an api
\* whose method is post.
C12_Witness ==
    \E p \in Procs :
        /\ pc[p] = "done"
        /\ call[p].op = "director"
        /\ result[p] = "returned (method unsupported)"
        /\ call[p].arg.Method = "GET"
        /\ req[p].Scheme = apiCreateUser.Protocol
        /\ req[p].Host = apiCreateUser.Host
        /\ req[p].Path = <<Sep>> \o apiCreateUser.Path

\* C13: the registry is create-only.  In every step, whichever operation
\* takes it, a service name of the registry stays one and keeps its record's
\* name, and an api entry of a service stays under its key with the same
\* record.
C13_CreateOnly ==
    [][\A n \in DOMAIN store :
        /\ n \in DOMAIN store'
        /\ store'[n].Name = store[n].Name
        /\ \A k \in DOMAIN store[n].APIs :
            /\ k \in DOMAIN store'[n].APIs
            /\ store'[n].APIs[k] = store[n].APIs[k]]_vars

\* C13's case: a CreateAPI call has written into a registry of two services,
\* under a service that held an api already.
C13_Witness ==
    \E p \in Procs :
        /\ Returning(p, "CreateAPI")
        /\ result[p] = "Success"
        /\ Cardinality(DOMAIN pre) = 2
        /\ DOMAIN pre[call[p].arg.Service].APIs # {}
        /\ Cardinality(DOMAIN store[call[p].arg.Service].APIs) >= 2

\* The goroutines that hold the lock, by where they are in their operation.
WriteHolders == {p \in Procs : pc[p] \in {"wait", "locked", "writing", "unlock"}}
ReadHolders == {p \in Procs : pc[p] \in {"rlocked", "runlock"}}

\* C14: under fair scheduling every GetService, CreateService and CreateAPI
\* call that has started completes; a goroutine that has taken the lock, for
\* writing or for reading, releases it, whether its call ends in Success, in
\* ConflictError or in the panic of a missing service; and the lock is held
\* by nobody but the goroutines inside an operation, so it is free when no
\* operation is in progress.
C14_Terminates ==
    /\ [](mu.w = WriteHolders /\ mu.readers = ReadHolders)
    /\ \A p \in Procs : (pc[p] # "idle") ~> (pc[p] = "done")
    /\ \A p \in Procs : (p \in mu.w \cup mu.readers) ~> (p \notin mu.w \cup mu.readers)

\* C14's case: a CreateAPI call for a missing service has panicked under the
\* write lock while another call waits for the lock.
C14_Witness ==
    \E p, q \in Procs :
        /\ Returning(p, "CreateAPI")
        /\ result[p] = "Panic"
        /\ p \in mu.w
        /\ pc[q] \in {"lock", "rlock"}

\* C15: no step of a director, from the call to its return, its GetService
\* and its lookup included, changes the registry: the services, their
\* mappings and the records are after the step what they were before it.
C15_RouterReadOnly ==
    [][\A p \in Procs :
        (/\ call[p].op = "director" \/ call'[p].op = "director"
         /\ pc'[p] # pc[p])
            => store' = store]_vars

\* C15's case: a director has resolved its request against a registry of two
\* services and rewritten it.
C15_Witness ==
    \E p \in Procs :
        /\ pc[p] = "done"
        /\ call[p].op = "director"
        /\ req[p].Host # call[p].arg.Host
        /\ Cardinality(DOMAIN store) = 2

\* The goroutines past c.mu.Lock() and before c.mu.Unlock(), and those past
\* c.mu.RLock() and before c.mu.RUnlock().
InWrite == {p \in Procs : pc[p] \in {"locked", "writing", "unlock"}}
InRead == {p \in Procs : pc[p] \in {"rlocked", "runlock"}}

\* C16: at most one CreateService or CreateAPI call is between its Lock and
\* its Unlock, and while one is there no GetService is between its RLock and
\* its RUnlock.  (Readers may be there together: C16_Witness.)
C16_ReadersWriter ==
    /\ \A p, q \in InWrite : p = q
    /\ InWrite # {} => InRead = {}

\* C16's case: two GetService calls hold the read lock together, and nobody
\* holds the write lock.
C16_Witness ==
    \E p, q \in InRead :
        /\ p # q
        /\ call[p].op = "GetService"
        /\ call[q].op = "GetService"
        /\ InWrite = {}

\* Two create calls of the same kind for the same name: the same service
\* name, or the same service and api name.
SameTarget(p, q) ==
    /\ p # q
    /\ call[p].op = call[q].op
    /\ \/ /\ call[p].op = "CreateService"
          /\ call[p].arg.Name = call[q].arg.Name
       \/ /\ call[p].op = "CreateAPI"
          /\ call[p].arg.Service = call[q].arg.Service
          /\ call[p].arg.Name = call[q].arg.Name

\* The name of p's create call is new to the registry p found: no service of
\* that name, or the service is there and has no api of that name.
NewIn(st, p) ==
    IF call[p].op = "CreateService"
    THEN call[p].arg.Name \notin DOMAIN st
    ELSE /\ call[p].arg.Service \in DOMAIN st
         /\ call[p].arg.Name \notin DOMAIN st[call[p].arg.Service].APIs

\* The registry holds under the name of p's create call the record p passed:
\* the api as passed, or the service as passed but for the apis added to its
\* mapping since.
Holds(st, p) ==
    IF call[p].op = "CreateService"
    THEN /\ call[p].arg.Name \in DOMAIN st
         /\ st[call[p].arg.Name].Name = call[p].arg.Name
         /\ st[call[p].arg.Name].nilAPIs = call[p].arg.nilAPIs
         /\ \A k \in DOMAIN call[p].arg.APIs :
                MapGet(st[call[p].arg.Name].APIs, k)
                    = [exist |-> TRUE, api |-> call[p].arg.APIs[k]]
    ELSE /\ call[p].arg.Service \in DOMAIN st
         /\ MapGet(st[call[p].arg.Service].APIs, call[p].arg.Name)
                = [exist |-> TRUE, api |-> call[p].arg]

\* C17: of the create calls that run together for one name, a service name
\* or an api name under an existing service, the first to get the lock
\* returns Success and leaves its record in the registry, and a call that
\* gets the lock after a successful one returns ConflictError and leaves the
\* registry, with the record of the successful call, as it found it.
C17_Atomic ==
    \A p, q \in Procs :
        (Returning(p, call[q].op) /\ SameTarget(p, q) /\ pc[q] \in {"lock", "done"})
            => /\ NewIn(pre, p) => (result[p] = "Success" /\ Holds(store, p))
               /\ (pc[q] = "done" /\ result[q] = "Success")
                    => /\ result[p] = "ConflictError"
                       /\ store = pre
                       /\ Holds(store, q)

\* The argument of p's call is one the create operation must refuse: a nil
\* service or one without a name, a nil api, one without a name or one
\* without the name of its service.
Refused(c) ==
    \/ c.op = "CreateService" /\ (c.arg.isNil \/ c.arg.Name = EmptyStr)
    \/ c.op = "CreateAPI"
        /\ (c.arg.isNil \/ c.arg.Name = EmptyStr \/ c.arg.Service = EmptyStr)

\* C18: a create call with such an argument returns ValidationError in the
\* step that makes the call, whatever the registry holds and whoever holds
\* the lock: it takes no lock, looks nothing up and leaves the registry as it
\* was.
C18_ValidationFirst ==
    [][\A p \in Procs :
        Refused(call'[p])
            => /\ pc'[p] = "done"
               /\ result'[p] = "ValidationError"
               /\ p \notin mu'.w
               /\ call'[p] # call[p] => (store' = store /\ mu' = mu)]_vars

\* C18's case: an api without the name of its service, under a name that is
\* taken in the registry, has been refused while another call holds the
\* write lock.
C18_Witness ==
    \E p, q \in Procs :
        /\ pc[p] = "done"
        /\ result[p] = "ValidationError"
        /\ call[p].op = "CreateAPI"
        /\ call[p].arg.Service = EmptyStr
        /\ \E n \in DOMAIN store : call[p].arg.Name \in DOMAIN store[n].APIs
        /\ pc[q] \in {"locked", "writing"}

\* C19: from its call to its return a director leaves the request's query
\* string, its method and its body as they were on entry, also when it has
\* resolved the request and set scheme, host and path.
C19_OnlyTarget ==
    \A p \in Procs :
        call[p].op = "director"
            => /\ req[p].RawQuery = call[p].arg.RawQuery
               /\ req[p].Method = call[p].arg.Method
               /\ req[p].Body = call[p].arg.Body

\* C19's case: a post request with a query string has been resolved, and its
\* scheme, host and path are now those of the post api createUser.
C19_Witness ==
    \E p \in Procs :
        /\ pc[p] = "done"
        /\ call[p].op = "director"
        /\ result[p] = "returned"
        /\ call[p].arg.RawQuery # ""
        /\ call[p].arg.Method = "post"
        /\ req[p].Scheme # call[p].arg.Scheme
        /\ req[p].Host # call[p].arg.Host
        /\ req[p].Path # call[p].arg.Path

\* Two outcomes that differ in nothing but what was logged.
SameResolution(a, b) ==
    /\ a.req = b.req
    /\ (a.result = "Panic") <=> (b.result = "Panic")

\* C20: on every registry the program reaches (the empty one, and each one a
\* step that changes the registry leaves) and for every request, path and
\* method, the closure kept in directorFunc and the method director leave the
\* same request and panic in the same cases; and the method director is what
\* the program runs: a director whose lookup no writer races with ends it as
\* director does on the registry of that moment.
C20_SameDirector ==
    [][/\ (store = NoStore \/ store' # store)
            => \A r \in Requests :
                SameResolution(directorFunc(store', r), director(store', r))
       /\ \A p \in Procs :
            (pc[p] = "lookup" /\ pc'[p] = "done" /\ ~Racing(p))
                => /\ req'[p] = director(store, call[p].arg).req
                   /\ result'[p] = director(store, call[p].arg).result]_vars

\* C20's case: the registry holds an api both directors resolve a request
\* to, the method director logging the request's method, and a null record on
\* which both panic.
C20_Witness ==
    /\ \E r \in Requests :
        /\ director(store, r).result = "returned (method unsupported)"
        /\ directorFunc(store, r).result = "returned"
        /\ directorFunc(store, r).req.Host # r.Host
    /\ \E r \in Requests :
        /\ director(store, r).result = "Panic"
        /\ directorFunc(store, r).result = "Panic"

====
